---- MODULE Spec2Model ----
(***************************************************************************)
(* A model of the two Streamlit screeners of binance-screener.             *)
(*                                                                         *)
(*   screener_app.py  the streaming screener: a listener thread puts the   *)
(*                    trade messages of a websocket on a queue, the main   *)
(*                    loop of the "Start Screener" handler drains the      *)
(*                    queue, filters every trade, and on a change of the   *)
(*                    wall-clock minute publishes the matches. The two     *)
(*                    published frames are shown page by page, narrowed    *)
(*                    by a search text.                                    *)
(*   app.py           the polling screener: every script run fetches the   *)
(*                    trades of the last minute per symbol, screens them   *)
(*                    and appends the matches to the session history.      *)
(*                                                                         *)
(* Time is counted in ticks, TicksPerMinute of them to a minute. A trade's *)
(* timestamp is its event time T in ticks: datetime.fromtimestamp(T/1000)  *)
(* keeps the instant, so the tick stands for the datetime.                 *)
(***************************************************************************)
EXTENDS Integers, Sequences, FiniteSets, TLC

\* ------------------------------------------------------------ bounds
MaxClock == 4          \* the wall clock runs from tick 0 to this tick
TicksPerMinute == 2    \* ticks to a wall-clock minute
MaxRuns == 2           \* script runs of app.py the model follows
MaxStarts == 2         \* clicks of "Start Screener" the model follows
page_size == 1         \* records to a page (page_size = 20), scaled like the minute
MaxPage == 3           \* page numbers the queries of the claims range over

\* -------------------------------------------------- program constants
MinutesPerHour == 60           \* datetime.minute is the minute of the hour
FallbackRate == 82             \* get_inr_rate: return 82  # fallback
vol_multiplier == 10           \* sidebar "Volume Multiplier (x avg vol)"
Multipliers == {1, vol_multiplier, 20}   \* values the sidebar lets the user set
min_value_inr == 4             \* sidebar "Minimum 1 min trade value (INR Crore)"
Crore == 10000000              \* the 1e7 of  val > min_value_inr * 1e7
None == -1                     \* Python's None, where a number is expected
Missing == -2                  \* a key a message does not have

Symbols == {"A", "B"}
SymbolList == <<"A", "B">>
Qtys == {900, 1500}            \* the sizes of the trades the feed delivers
SmallQty == CHOOSE x \in Qtys : \A y \in Qtys : x <= y
BigQty == CHOOSE x \in Qtys : \A y \in Qtys : x >= y
Prices == {500}
Price == CHOOSE p \in Prices : TRUE
Rates == {FallbackRate, 83}
Conditions == {"Volume-based", "Value-based"}
Searches == {"", " ", "b"}     \* texts the user types into "Search Symbol"

VARIABLES
    app,               \* which of the two scripts the session runs
    now,               \* the wall clock (datetime.utcnow()), in ticks
    running,           \* the main loop of the Start Screener handler runs
    listener,          \* the websocket listener thread: none, open, closed
    q,                 \* queue.Queue() between listener and main loop
    condition,         \* sidebar radio "Filter Condition"
    inr_rate,          \* inr_rate = get_inr_rate()
    avg_vol_dict,      \* symbol -> 5-day average 1-minute volume
    df_current_min,    \* matches of the minute in progress
    last_minute,       \* minute of the hour of the open window
    filtered_current,  \* st.session_state.filtered_current
    filtered_history,  \* st.session_state.filtered_history
    page_num_current,  \* st.session_state.page_num_current
    page_num_history,  \* st.session_state.page_num_history
    search_symbol,     \* the text of st.text_input("Search Symbol")
    acc,               \* history: symbol -> totals of the open window's trades consumed
    last_known,        \* history: symbol -> the last baseline a fetch found data for
    openWindow,        \* history: number of the minute last_minute stands for
    lastClosed,        \* history: latest minute a rollover has closed, -1 if none
    overwrote,         \* history: the last append replaced a record of the same key
    endedBy,           \* history: how the main loop last ended
    starts,            \* history: clicks of "Start Screener" so far
    volume_history,    \* app.py: st.session_state.volume_history
    value_history      \* app.py: st.session_state.value_history

vars == <<app, now, running, listener, q, condition, inr_rate, avg_vol_dict,
          df_current_min, last_minute, filtered_current, filtered_history,
          page_num_current, page_num_history, search_symbol,
          acc, last_known, openWindow, lastClosed, overwrote, endedBy, starts,
          volume_history, value_history>>

\* What the user sets between two runs of the engine.
uiVars == <<page_num_current, page_num_history, search_symbol>>

\* The engine: the Start Screener handler, its listener and what it publishes.
engineVars == <<running, listener, q, condition, inr_rate, avg_vol_dict,
                df_current_min, last_minute, filtered_current, filtered_history,
                acc, last_known, openWindow, lastClosed, overwrote, endedBy, starts>>

screenerVars == <<engineVars, uiVars>>

\* The locals of the Start Screener handler that the main loop only reads.
runLocals == <<condition, inr_rate, avg_vol_dict, last_minute, openWindow>>

appVars == <<volume_history, value_history>>

\* ------------------------------------------------------------ helpers
WindowOf(t) == t \div TicksPerMinute

\* datetime.minute of the instant t
MinuteOf(t) == WindowOf(t) % MinutesPerHour

\* the hour compared where the minute is meant
hour_changed(t, last) == (WindowOf(t) \div MinutesPerHour) # last

\* if now.minute != last_minute
minute_changed(t, last) == MinuteOf(t) # last

RECURSIVE SumSeq(_)
SumSeq(s) == IF s = <<>> THEN 0 ELSE Head(s) + SumSeq(Tail(s))

RECURSIVE SelectRows(_, _)
\* df[df["symbol"] != sym]
SelectRows(df, sym) ==
    IF df = <<>> THEN <<>>
    ELSE IF Head(df).symbol # sym
         THEN <<Head(df)>> \o SelectRows(Tail(df), sym)
         ELSE SelectRows(Tail(df), sym)

SameKey(r1, r2) == r1.symbol = r2.symbol /\ r1.timestamp = r2.timestamp

RECURSIVE DropDuplicates(_, _)
\* df.drop_duplicates(subset=["symbol", "timestamp"]): the first row of a key stays
DropDuplicates(df, kept) ==
    IF df = <<>> THEN kept
    ELSE IF \E i \in DOMAIN kept : SameKey(kept[i], Head(df))
         THEN DropDuplicates(Tail(df), kept)
         ELSE DropDuplicates(Tail(df), Append(kept, Head(df)))

RECURSIVE InsertDesc(_, _)
InsertDesc(sorted, r) ==
    IF sorted = <<>> THEN <<r>>
    ELSE IF Head(sorted).timestamp >= r.timestamp
         THEN <<Head(sorted)>> \o InsertDesc(Tail(sorted), r)
         ELSE <<r>> \o sorted

RECURSIVE SortDesc(_, _)
\* df.sort_values(by="timestamp", ascending=False); rows of one timestamp keep
\* their order (what the sort does on frames of a few rows)
SortDesc(df, sorted) ==
    IF df = <<>> THEN sorted
    ELSE SortDesc(Tail(df), InsertDesc(sorted, Head(df)))

RECURSIVE Reverse(_)
Reverse(df) == IF df = <<>> THEN <<>> ELSE Append(Reverse(Tail(df)), Head(df))

\* the sort with ascending=True
sort_values_ascending(df) == Reverse(SortDesc(df, <<>>))

sort_values(df) == SortDesc(df, <<>>)

\* ------------------------------------------------- screener_app.py

\* The reply of the klines endpoint: an error object, or the bars' volumes.
BarResponses ==
    { [code |-> TRUE, volumes |-> <<>>],
      [code |-> FALSE, volumes |-> <<>>],
      [code |-> FALSE, volumes |-> <<100, 100>>] }

fetch_5day_1min_avg_vol(res) ==
    IF res.code THEN None
    ELSE IF res.volumes # <<>>
         THEN SumSeq(res.volumes) \div Len(res.volumes)
         ELSE 0

\* A reply with bars to average: what a baseline can be computed from.
Usable(res) == ~res.code /\ res.volumes # <<>>

\* Bars that all have volume 0: an average that is 0 by the data.
ZeroBars == [code |-> FALSE, volumes |-> <<0, 0>>]

\* avg_vol_dict = {}
NoAverages == [s \in {} |-> 0]

\* avg_vol_dict[sym] = avg_vol if avg_vol is not None else 0
BuildAvgVolDict(cond, fetched) ==
    IF cond = "Volume-based"
    THEN [s \in Symbols |->
            IF fetch_5day_1min_avg_vol(fetched[s]) # None
            THEN fetch_5day_1min_avg_vol(fetched[s]) ELSE 0]
    ELSE NoAverages

\* avg_vol_dict.get(sym, 0)
AvgVolGet(d, sym) == IF sym \in DOMAIN d THEN d[sym] ELSE 0

\* The messages the websocket can deliver at wall-clock time t: a trade of
\* either symbol and either size whose event time is the current tick or the
\* one before (the feed's latency), an event that is no trade, and a trade
\* event that lacks its quantity. (A text
\* json.loads cannot parse ends the listener before anything is queued: see
\* ListenerError.)
TradeMessages(t) ==
    { [e |-> "trade", s |-> sym, q |-> qty, p |-> Price, T |-> T] :
        sym \in Symbols, qty \in Qtys, T \in {t - 1, t} \cap Nat }

OtherMessage == [e |-> "other", s |-> "A", q |-> Missing, p |-> Missing, T |-> 0]
PartialTrade == [e |-> "trade", s |-> "A", q |-> Missing, p |-> Price, T |-> 0]

Messages(t) == TradeMessages(t) \cup {OtherMessage, PartialTrade}

\* float(trade['q']), float(trade['p']), trade['T'] raise KeyError on a missing key
Malformed(trade) == trade.q = Missing \/ trade.p = Missing \/ trade.T = Missing

process_trade_data(trade, rate) ==
    [symbol |-> trade.s,
     volume |-> trade.q,
     value_in_inr |-> (trade.q * trade.p) * rate,
     timestamp |-> trade.T]

\* the volume test without the guard  avg_vol > 0
passes_filter_unguarded(cond, avgs, mult, info) ==
    IF cond = "Volume-based"
    THEN info.volume > mult * AvgVolGet(avgs, info.symbol)
    ELSE info.value_in_inr > min_value_inr * Crore

passes_filter(cond, avgs, mult, info) ==
    IF cond = "Volume-based"
    THEN AvgVolGet(avgs, info.symbol) > 0
         /\ info.volume > mult * AvgVolGet(avgs, info.symbol)
    ELSE info.value_in_inr > min_value_inr * Crore

\* the new row added without the instrument's earlier row being removed
UpsertRow_append(df, info) == Append(df, info)

\* Add or update row in df_current_min
UpsertRow(df, info) == Append(SelectRows(df, info.symbol), info)

\* the frames concatenated the other way round: the old row of a key stays
HistoryAppend_history_first(current, history) ==
    sort_values(DropDuplicates(history \o current, <<>>))

\* the history sorted again without the frame of the closed window
HistoryAppend_history_only(current, history) ==
    sort_values(DropDuplicates(history, <<>>))

\* pd.concat([df_current_min, filtered_history]).drop_duplicates(...).sort_values(...)
HistoryAppend(current, history) ==
    sort_values(DropDuplicates(current \o history, <<>>))

ZeroAcc == [s \in Symbols |-> [vol |-> 0, usd |-> 0]]

\* The totals of the open window w with one more trade consumed. A trade counts
\* for the window unless its event time is at or after the window's end (a late
\* trade, which arrived in the window, counts).
Accumulate(a, trade, w) ==
    IF WindowOf(trade.T) <= w
    THEN [a EXCEPT ![trade.s] = [vol |-> @.vol + trade.q,
                                 usd |-> @.usd + trade.q * trade.p]]
    ELSE a

NothingKnown == [s \in Symbols |-> None]

\* The baselines known after a fetch: a reply with bars gives the instrument's
\* new baseline, any other reply leaves the one known before.
Remember(known, cond, fetched) ==
    IF cond = "Volume-based"
    THEN [s \in Symbols |->
            IF Usable(fetched[s]) THEN fetch_5day_1min_avg_vol(fetched[s])
            ELSE known[s]]
    ELSE known

\* the listener goes on after queue.put
listener_survives_put == "open"

\* await queue.put(data): queue.Queue.put has queued data and returned None;
\* awaiting None raises TypeError, which the except clause of the read loop
\* catches: st.error(...); break. The listener ends after its first message.
listener_after_put == "closed"

\* ------------------------------------------------ the two tables
Strip(text) == IF text = " " THEN "" ELSE text
Upper(text) == IF text = "b" THEN "B" ELSE text

\* df['symbol'].str.contains(text), for the one-letter symbols and texts drawn
Contains(symbol, text) == symbol = text

filter_and_search(df, search) ==
    IF Strip(search) # ""
    THEN SelectSeq(df, LAMBDA r : Contains(r.symbol, Upper(Strip(search))))
    ELSE df

\* df.iloc[start:end]
paginate(df, page_num) ==
    LET start == (page_num - 1) * page_size
        end == start + page_size
    IN SubSeq(df, start + 1, IF end < Len(df) THEN end ELSE Len(df))

\* What the two st.dataframe calls at the end of the script show.
df_filtered_current_paginated ==
    paginate(filter_and_search(filtered_current, search_symbol), page_num_current)

df_filtered_history_paginated ==
    paginate(filter_and_search(filtered_history, search_symbol), page_num_history)

\* The script run ends (st.experimental_rerun(), or break and the end of the
\* script): the handler's locals are gone. The queue stays with the listener
\* thread, which the handler does not stop.
EndOfRun ==
    /\ condition' = "Volume-based"
    /\ inr_rate' = FallbackRate
    /\ avg_vol_dict' = NoAverages
    /\ last_minute' = 0
    /\ openWindow' = 0

Init ==
    /\ app \in {"screener_app", "app"}
    /\ now = 0
    /\ running = FALSE
    /\ listener = "none"
    /\ q = <<>>
    /\ condition = "Volume-based"
    /\ inr_rate = FallbackRate
    /\ avg_vol_dict = NoAverages
    /\ df_current_min = <<>>
    /\ last_minute = 0
    /\ filtered_current = <<>>
    /\ filtered_history = <<>>
    /\ page_num_current = 1
    /\ page_num_history = 1
    /\ search_symbol = ""
    /\ acc = ZeroAcc
    /\ last_known = NothingKnown
    /\ openWindow = 0
    /\ lastClosed = -1
    /\ overwrote = FALSE
    /\ endedBy = "none"
    /\ starts = 0
    /\ volume_history = <<>>
    /\ value_history = <<>>

\* The wall clock advances.
Tick ==
    /\ now < MaxClock
    /\ now' = now + 1
    /\ UNCHANGED <<app, screenerVars, appVars>>

\* if st.button("Start Screener"): the rate, the symbols and the averages are
\* fetched, a new queue and listener thread are made, and the main loop begins.
StartScreener ==
    /\ app = "screener_app"
    /\ ~running
    /\ starts < MaxStarts
    /\ \E rate \in Rates, symbols \in {<<>>, SymbolList}, cond \in Conditions,
          fetched \in [Symbols -> BarResponses] :
        IF symbols = <<>>
        THEN UNCHANGED <<engineVars>>
        ELSE /\ starts' = starts + 1
             /\ inr_rate' = rate
             /\ condition' = cond
             /\ avg_vol_dict' = BuildAvgVolDict(cond, fetched)
             /\ q' = <<>>
             /\ listener' = "open"
             /\ df_current_min' = <<>>
             /\ last_minute' = MinuteOf(now)
             /\ running' = TRUE
             /\ acc' = ZeroAcc
             /\ last_known' = Remember(last_known, cond, fetched)
             /\ openWindow' = WindowOf(now)
             /\ endedBy' = "none"
             /\ UNCHANGED <<filtered_current, filtered_history, lastClosed, overwrote>>
    /\ UNCHANGED <<app, now, uiVars, appVars>>

\* msg = await ws.recv(); data = json.loads(msg); await queue.put(data)
listen_binance_ws ==
    /\ app = "screener_app"
    /\ listener = "open"
    /\ \E msg \in Messages(now) : q' = Append(q, msg)
    /\ listener' = listener_after_put
    /\ UNCHANGED <<app, now, running, condition, inr_rate, avg_vol_dict,
                   df_current_min, last_minute, filtered_current, filtered_history,
                   acc, last_known, openWindow, lastClosed, overwrote, endedBy, starts,
                   uiVars, appVars>>

\* ws.recv() raises (the connection is lost) or json.loads(msg) raises (the text
\* is no JSON): st.error(...); break. The listener thread ends, nothing is queued.
ListenerError ==
    /\ app = "screener_app"
    /\ listener = "open"
    /\ listener' = "closed"
    /\ UNCHANGED <<app, now, running, q, condition, inr_rate, avg_vol_dict,
                   df_current_min, last_minute, filtered_current, filtered_history,
                   acc, last_known, openWindow, lastClosed, overwrote, endedBy, starts,
                   uiVars, appVars>>

\* One pass of  while not q.empty():  msg = q.get_nowait(); ...
ConsumeMessage ==
    /\ app = "screener_app"
    /\ running
    /\ q # <<>>
    /\ q' = Tail(q)
    /\ LET trade == Head(q) IN
        IF trade.e # "trade"
        THEN UNCHANGED <<running, df_current_min, acc, endedBy, runLocals>>
        ELSE IF Malformed(trade)
        THEN \* KeyError -> except Exception: st.error(...); break
             /\ running' = FALSE
             /\ endedBy' = "error"
             /\ df_current_min' = <<>>
             /\ acc' = ZeroAcc
             /\ EndOfRun
        ELSE LET trade_info == process_trade_data(trade, inr_rate) IN
             /\ df_current_min' =
                    IF passes_filter(condition, avg_vol_dict, vol_multiplier, trade_info)
                    THEN UpsertRow(df_current_min, trade_info)
                    ELSE df_current_min
             /\ acc' = Accumulate(acc, trade, openWindow)
             /\ UNCHANGED <<running, endedBy, runLocals>>
    /\ UNCHANGED <<app, now, listener, filtered_current, filtered_history,
                   last_known, lastClosed, overwrote, starts, uiVars, appVars>>

\* The queue is empty: now = datetime.utcnow(); if now.minute != last_minute the
\* matches are published and st.experimental_rerun() ends this run of the script
\* (the rerun finds the Start button not pressed); else time.sleep(1).
MinuteCheck ==
    /\ app = "screener_app"
    /\ running
    /\ q = <<>>
    /\ IF minute_changed(now, last_minute)
       THEN /\ EndOfRun
            /\ filtered_current' = sort_values(df_current_min)
            /\ filtered_history' = HistoryAppend(df_current_min, filtered_history)
            /\ df_current_min' = <<>>
            /\ running' = FALSE
            /\ acc' = ZeroAcc
            /\ lastClosed' = WindowOf(now) - 1
            /\ overwrote' = \E i \in DOMAIN df_current_min, j \in DOMAIN filtered_history :
                                /\ SameKey(df_current_min[i], filtered_history[j])
                                /\ df_current_min[i] # filtered_history[j]
            /\ endedBy' = "rerun"
       ELSE UNCHANGED <<runLocals, filtered_current, filtered_history, df_current_min,
                        running, acc, lastClosed, overwrote, endedBy>>
    /\ UNCHANGED <<app, now, listener, q, last_known, starts, uiVars, appVars>>

\* The user's clicks and typing. A widget interaction asks for a run of the
\* script; the main loop makes no call into Streamlit that would let the run in
\* progress give way, so the interactions are those made while no loop runs.
prev_page_current ==
    /\ app = "screener_app"
    /\ ~running
    /\ page_num_current' =
            IF page_num_current > 1 THEN page_num_current - 1 ELSE page_num_current
    /\ UNCHANGED <<app, now, engineVars, page_num_history, search_symbol, appVars>>

next_page_current ==
    /\ app = "screener_app"
    /\ ~running
    /\ page_num_current' =
            IF page_num_current * page_size < Len(filtered_current)
            THEN page_num_current + 1 ELSE page_num_current
    /\ UNCHANGED <<app, now, engineVars, page_num_history, search_symbol, appVars>>

prev_page_history ==
    /\ app = "screener_app"
    /\ ~running
    /\ page_num_history' =
            IF page_num_history > 1 THEN page_num_history - 1 ELSE page_num_history
    /\ UNCHANGED <<app, now, engineVars, page_num_current, search_symbol, appVars>>

next_page_history ==
    /\ app = "screener_app"
    /\ ~running
    /\ page_num_history' =
            IF page_num_history * page_size < Len(filtered_history)
            THEN page_num_history + 1 ELSE page_num_history
    /\ UNCHANGED <<app, now, engineVars, page_num_current, search_symbol, appVars>>

\* search_symbol = st.text_input("Search Symbol")
SearchSymbol ==
    /\ app = "screener_app"
    /\ ~running
    /\ \E text \in Searches : search_symbol' = text
    /\ UNCHANGED <<app, now, engineVars, page_num_current, page_num_history, appVars>>

\* ---------------------------------------------------------- app.py
INR_CONVERSION_RATE == 83      \* INR_CONVERSION_RATE = 83.0
avg_days == 5                  \* st.slider("Average over days", 1, 10, 5)
slider_vol_multiplier == 10    \* st.slider("Volume Multiplier", 1, 20, 10)
value_threshold == 40000000    \* st.number_input(..., value=4_00_00_000)
MinutesPerDay == 1440          \* the 1440 of  days * 1440
DayVolumes == {720000}         \* a 5-day volume whose per-minute average is 100

\* The replies of the aggTrades endpoint for the last minute: a failure, no
\* trade, one trade of the larger size, two trades of the smaller size.
AppResponses ==
    { [ok |-> FALSE, trades |-> <<>>],
      [ok |-> TRUE, trades |-> <<>>],
      [ok |-> TRUE, trades |-> <<[q |-> BigQty, p |-> Price]>>],
      [ok |-> TRUE, trades |-> <<[q |-> SmallQty, p |-> Price],
                                 [q |-> SmallQty, p |-> Price]>>] }

\* The replies of the aggTrades endpoint for the last avg_days days.
AvgResponses ==
    { [ok |-> FALSE, trades |-> <<>>],
      [ok |-> TRUE, trades |-> <<>>] }
    \cup { [ok |-> TRUE, trades |-> <<[q |-> v, p |-> Price]>>] : v \in DayVolumes }

RECURSIVE SumQty(_)
\* sum(float(t['q']) for t in res)
SumQty(trades) ==
    IF trades = <<>> THEN 0 ELSE Head(trades).q + SumQty(Tail(trades))

RECURSIVE SumValue(_, _)
\* sum(float(t['p']) * float(t['q']) * INR_CONVERSION_RATE for t in res)
SumValue(trades, rate) ==
    IF trades = <<>> THEN 0
    ELSE Head(trades).p * Head(trades).q * rate + SumValue(Tail(trades), rate)

fetch_1min_volume(res) ==
    IF res.ok
    THEN [volume |-> SumQty(res.trades),
          value_inr |-> SumValue(res.trades, INR_CONVERSION_RATE)]
    ELSE [volume |-> 0, value_inr |-> 0]

\* total_volume / (days * 1440); the replies drawn divide without remainder
calculate_average_volume(res, days) ==
    IF res.ok THEN SumQty(res.trades) \div (days * MinutesPerDay) ELSE 0

RECURSIVE VolumeResults(_, _, _, _, _)
\* the rows screen_pairs appends to volume_results, symbol after symbol
VolumeResults(symbols, recent, past, mult, time) ==
    IF symbols = <<>> THEN <<>>
    ELSE LET sym == Head(symbols)
             vol == fetch_1min_volume(recent[sym]).volume
             avg_vol == calculate_average_volume(past[sym], avg_days)
             rest == VolumeResults(Tail(symbols), recent, past, mult, time)
         IN IF avg_vol > 0 /\ vol > mult * avg_vol
            THEN <<[Symbol |-> sym, Volume |-> vol, AvgVolume |-> avg_vol,
                    Time |-> time]>> \o rest
            ELSE rest

RECURSIVE ValueResults(_, _, _, _)
\* the rows screen_pairs appends to value_results
ValueResults(symbols, recent, threshold, time) ==
    IF symbols = <<>> THEN <<>>
    ELSE LET sym == Head(symbols)
             val == fetch_1min_volume(recent[sym]).value_inr
             rest == ValueResults(Tail(symbols), recent, threshold, time)
         IN IF val > threshold
            THEN <<[Symbol |-> sym, ValueINR |-> val, Time |-> time]>> \o rest
            ELSE rest

\* One run of the script app.py (the auto refresh, or any interaction of the
\* user): the symbols are fetched and screened, and the two frames of matches,
\* stamped with the current minute, are appended to the session's histories.
AppRun ==
    /\ app = "app"
    /\ Len(volume_history) < MaxRuns
    /\ \E symbols \in {<<>>, SymbolList}, recent \in [Symbols -> AppResponses],
          past \in [Symbols -> AvgResponses] :
        IF symbols = <<>>
        THEN UNCHANGED appVars
        ELSE LET timestamp == WindowOf(now) IN
             /\ volume_history' = Append(volume_history,
                    VolumeResults(symbols, recent, past, slider_vol_multiplier, timestamp))
             /\ value_history' = Append(value_history,
                    ValueResults(symbols, recent, value_threshold, timestamp))
    /\ UNCHANGED <<app, now, screenerVars>>

MainLoop == ConsumeMessage \/ MinuteCheck

Next ==
    \/ Tick
    \/ StartScreener
    \/ listen_binance_ws
    \/ ListenerError
    \/ ConsumeMessage
    \/ MinuteCheck
    \/ prev_page_current
    \/ next_page_current
    \/ prev_page_history
    \/ next_page_history
    \/ SearchSymbol
    \/ AppRun

Spec == Init /\ [][Next]_vars

\* The main loop is a running thread: it takes its next step.
FairSpec == Spec /\ WF_vars(MainLoop)

\* ------------------------------------------------------------ claims

\* A step of the main loop that closes the open window.
Rollover == MinuteCheck /\ minute_changed(now, last_minute)

HasRow(df, sym) == \E i \in DOMAIN df : df[i].symbol = sym

\* C1: the volume and the value published for an instrument when the window
\* closes are the sums of the quantities and of price*quantity (in the published
\* currency) over the trades of that instrument that belong to the window.
C1_SnapshotIsWindowSum ==
    [][Rollover =>
        \A i \in DOMAIN filtered_current' :
            LET r == filtered_current'[i] IN
                /\ r.volume = acc[r.symbol].vol
                /\ r.value_in_inr = acc[r.symbol].usd * inr_rate]_vars

\* C2: no trade whose event time is at or after the start of the next window is
\* among the matches of the window being closed.
C2_NoLeakAcrossBoundary ==
    running =>
        \A i \in DOMAIN df_current_min :
            WindowOf(df_current_min[i].timestamp) <= openWindow

\* C3: after a rollover has published a window the engine keeps running.
C3_RunsOnAfterRollover == [][Rollover => running']_vars

NoTwoOfOneWindow(df) ==
    \A i, j \in DOMAIN df :
        (i # j /\ df[i].symbol = df[j].symbol)
            => WindowOf(df[i].timestamp) # WindowOf(df[j].timestamp)

AppNoTwoOfOneMinute(history) ==
    \A k, l \in DOMAIN history :
        \A i \in DOMAIN history[k], j \in DOMAIN history[l] :
            (<<k, i>> # <<l, j>> /\ history[k][i].Symbol = history[l][j].Symbol)
                => history[k][i].Time # history[l][j].Time

C5_NoDuplicateInHistory ==
    /\ NoTwoOfOneWindow(filtered_history)
    /\ AppNoTwoOfOneMinute(volume_history)
    /\ AppNoTwoOfOneMinute(value_history)

C7_NeverListedWithoutBaseline ==
    (running /\ condition = "Volume-based") =>
        \A s \in Symbols :
            AvgVolGet(avg_vol_dict, s) <= 0 =>
                ~HasRow(filtered_current, s) /\ ~HasRow(filtered_history, s)

\* C7 amended: while the volume rule is active, no trade of an instrument
\* without a positive baseline matches, whatever its volume and the multiplier,
\* and no such instrument is among the matches in progress; the volume matches
\* app.py keeps were all made against a positive average.
C7_NoMatchWithoutBaseline ==
    /\ (running /\ condition = "Volume-based") =>
        /\ \A i \in DOMAIN df_current_min :
                AvgVolGet(avg_vol_dict, df_current_min[i].symbol) > 0
        /\ \A s \in Symbols, m \in Multipliers, trade \in TradeMessages(now) :
                (trade.s = s /\ AvgVolGet(avg_vol_dict, s) <= 0) =>
                    ~passes_filter(condition, avg_vol_dict, m,
                                   process_trade_data(trade, inr_rate))
    /\ \A k \in DOMAIN volume_history :
            \A i \in DOMAIN volume_history[k] : volume_history[k][i].AvgVolume > 0

\* The volume rule is active, "A" has no baseline and has traded in the window.
C7_Witness ==
    /\ running /\ condition = "Volume-based"
    /\ AvgVolGet(avg_vol_dict, "A") = 0
    /\ acc["A"].vol >= BigQty
    /\ ~HasRow(df_current_min, "A")

\* C8: under the volume rule an instrument is in the match set of a closed
\* window exactly if its baseline is positive and the window's total volume
\* exceeds multiplier * baseline.
C8_VolumeMatchIffWindowTotal ==
    [][(Rollover /\ condition = "Volume-based") =>
        \A s \in Symbols :
            HasRow(filtered_current', s) <=>
                /\ AvgVolGet(avg_vol_dict, s) > 0
                /\ acc[s].vol > vol_multiplier * AvgVolGet(avg_vol_dict, s)]_vars

\* C9: under the value rule an instrument is in the match set of a closed
\* window exactly if the window's total notional times the rate exceeds the
\* threshold.
C9_ValueMatchIffWindowTotal ==
    [][(Rollover /\ condition = "Value-based") =>
        \A s \in Symbols :
            HasRow(filtered_current', s) <=>
                acc[s].usd * inr_rate > min_value_inr * Crore]_vars

\* C10: no trade whose event time lies in a window a rollover has closed is
\* among the matches in progress.
C10_LateEventsDropped ==
    \A i \in DOMAIN df_current_min :
        WindowOf(df_current_min[i].timestamp) > lastClosed

\* The window a record's timestamp lies in is not later than that of any record
\* before it.
RecentFirst(df) ==
    \A i, j \in DOMAIN df :
        i < j => WindowOf(df[i].timestamp) >= WindowOf(df[j].timestamp)

\* C11: for both tables and every page number from 1, the page shown has at most
\* page_size records, the pages follow each other most recent window first, a
\* page within the records is not empty and a page beyond them is empty.
C11_QueryPages ==
    \A df \in {filtered_current, filtered_history} :
        LET shown == filter_and_search(df, search_symbol) IN
        \A page_num \in 1..MaxPage :
            /\ Len(paginate(shown, page_num)) <= page_size
            /\ RecentFirst(paginate(shown, page_num) \o paginate(shown, page_num + 1))
            /\ (page_num - 1) * page_size < Len(shown) => paginate(shown, page_num) # <<>>
            /\ (page_num - 1) * page_size >= Len(shown) => paginate(shown, page_num) = <<>>

\* The history holds records of two windows, on more than one page.
C11_Witness ==
    /\ Len(filtered_history) > page_size
    /\ \E i, j \in DOMAIN filtered_history :
            WindowOf(filtered_history[i].timestamp) # WindowOf(filtered_history[j].timestamp)
    /\ page_num_history > 1

\* The page number is at least 1 and, unless no record is shown, not past the
\* last page of the records shown.
PageInRange(df, page_num) ==
    /\ page_num >= 1
    /\ filter_and_search(df, search_symbol) # <<>>
            => (page_num - 1) * page_size < Len(filter_and_search(df, search_symbol))

\* C12: the page number of either table never points past the last page of the
\* records shown for it.
C12_PageNumbersClamped ==
    /\ PageInRange(filtered_current, page_num_current)
    /\ PageInRange(filtered_history, page_num_history)

\* C13: while the engine runs its listener is reading the feed: neither a
\* delivered message nor a lost connection ends it.
C13_ListenerServesTheEngine == running => listener = "open"

\* C14: a trade message that lacks a field does not end the main loop.
C14_MalformedNeverHalts ==
    [][(ConsumeMessage /\ Head(q).e = "trade" /\ Malformed(Head(q))) => running']_vars

C16_NoDataKeptApart ==
    (running /\ condition = "Volume-based") =>
        \A s \in Symbols :
            IF last_known[s] = None
            THEN AvgVolGet(avg_vol_dict, s) # fetch_5day_1min_avg_vol(ZeroBars)
            ELSE AvgVolGet(avg_vol_dict, s) = last_known[s]

\* C17: whenever the main loop is not running, no listener is reading the feed.
C17_StopEndsIngestion == ~running => listener # "open"

\* C18: every record of the current table is in the history.
C18_CurrentWithinHistory ==
    \A i \in DOMAIN filtered_current :
        \E j \in DOMAIN filtered_history : filtered_history[j] = filtered_current[i]

\* A rollover has published a record next to older records of the history.
C18_Witness ==
    /\ filtered_current # <<>>
    /\ Len(filtered_history) > Len(filtered_current)

OnePerInstrument(df) ==
    \A i, j \in DOMAIN df : df[i].symbol = df[j].symbol => i = j

\* C19: the matches in progress and the current table hold at most one record
\* per instrument, and so do the matches in progress with any further trade
\* added, whose record is then the instrument's one record.
C19_OneRecordPerInstrument ==
    /\ OnePerInstrument(df_current_min)
    /\ OnePerInstrument(filtered_current)
    /\ \A trade \in TradeMessages(now) :
            LET trade_info == process_trade_data(trade, inr_rate)
                df == UpsertRow(df_current_min, trade_info) IN
            /\ OnePerInstrument(df)
            /\ \E i \in DOMAIN df : df[i] = trade_info

\* The matches in progress hold a record, which a further trade of its
\* instrument would replace.
C19_Witness == running /\ df_current_min # <<>>

====
